---------------------------- MODULE Spec2Model ----------------------------
(***************************************************************************)
(* IDPConformerGenerator: the geometry kernel and the torsion functions    *)
(* (libs/libcalc.py), the chain building loop of `idpconfgen build`        *)
(* (cli_build.py: main), the clash validator (alphas/clash_validator.py),  *)
(* the fragment reader (alphas/filtering_questions.py) and the worker pool *)
(* (libs/libmulticore.py).  Each component has its own specification; the *)
(* variables of the others stay at their idle values.                      *)
(*                                                                         *)
(* Numbers.  Coordinates are integer triples.  In the build loop and in    *)
(* the clash validator one unit is 0.01 Angstrom, so the van der Waals     *)
(* radii 1.55, 1.7, 1.7, 1.52 are 155, 170, 170, 152 and a distance d is   *)
(* compared with a radius sum s as d*d < s*s (both are non-negative).      *)
(* Angles are whole quarter turns (0, 1, 2, 3 = 0, 90, 180, 270 degrees),  *)
(* held as the doubles q * pi / 2; cos and sin of them are the doubles     *)
(* math.cos and math.sin return, which are 1, -1, 0 (sin 0 only) or a      *)
(* multiple of eps = 6.123233995736766e-17.  A vector that numpy divides   *)
(* by its norm is kept as the pair (num, normalized): it stands for        *)
(* num / |num|.  Its numeric value is taken only for vectors along one     *)
(* axis, where it is exactly the vector of signs.                          *)
(***************************************************************************)
EXTENDS Integers, Sequences, FiniteSets, TLC

VARIABLES
    \* ---- make_axis_vectors called on three points (libcalc.py)
    A, B, C,          \* the three input arrays, as they are after the call
    axis_out,         \* what make_axis_vectors returned, or NoCall
    \* ---- main of cli_build.py
    pc,               \* where main is: start, draw, place, break, saved, failed
                      \* (idle when main is not run)
    input_len,        \* len(input_seq)
    slices,           \* the windows regex_search found in the database
    bb,               \* the backbone coordinate array, index 0 .. num_bb-1
    i,                \* the write cursor
    i0,               \* the cursor when the current fragment was drawn
    agls,             \* the torsions of the current fragment not yet consumed
    bond_lens,        \* position of the cycle of bond lengths
    bond_bend,        \* position of the cycle of bend angles
    saved,            \* the coordinates handed to save_conformer_to_disk
    error,            \* the exception main ended with, "" for none
    \* ---- ClashValidator called on a pair of chains (clash_validator.py)
    current_chain,    \* sequence of residues, a residue a sequence of points
    last_chain,       \* the chain before the last fragment
    out_vectorized,   \* outcome of clash_found_vectorized, or NoCall
    out_found,        \* outcome of clash_found, or NoCall
    \* ---- the torsion functions of libcalc.py called on one array
    data,             \* the atom labels of the rows of the array
    ncols,            \* the number of columns of its coordinates
    validate_out,     \* outcome of validate_array_for_torsion, or NoCall
    torsion_out,      \* outcome of calc_torsion_angles, or NoCall
    \* ---- read_data_into_dict (alphas/filtering_questions.py)
    files,            \* the .data files of the folder, in the order of scandir,
                      \* each the sequence of its split lines
    read_pc,          \* scan, lines, done (idle when it is not run)
    entry,            \* the number of files opened so far
    line_no,          \* the number of lines of the open file read so far
    prev_SS, prev_fragment, prev_fragment_data,
    result_dict,
    \* ---- JoinedResults.run and its Workers (libs/libmulticore.py)
    input_data,       \* the list of input data
    ncores,           \* the number of workers
    run_pc,           \* where run() is: start, put, join, collect, returned
                      \* (idle when it is not run)
    tasks,            \* the items of the JoinableQueue, oldest first
    unfinished,       \* its count of items put and not yet marked done
    queue_results,    \* the results written to the pipe of the results
                      \* queue and not yet read, oldest first
    buffer,           \* per worker: the results it has put on the results
                      \* queue that its feeder thread has not yet written
    worker_pc,        \* per worker: new, get, pill, call, task_done, put,
                      \* exited, or died (the task raised)
    next_task,        \* per worker: the item it took last
    nput,             \* number of items run() has put on the queue
    numjobs,          \* the counter of the last loop of run()
    results,          \* JoinedResults.results
    taken_by,         \* per input datum: the workers that took its task
    ran,              \* per input datum: how many times its task was called
    \* ---- the DSSPTasks JoinedResults.run creates (libs/libmulticore.py)
    command,          \* the command as it was given to JoinedResults
    cmd,              \* JoinedResults.cmd, the same object, as it is now
    pdb_paths,        \* input_data, the paths of the PDB files
    dssp_tasks,       \* the DSSPTask objects created so far
    executed          \* per task created: the command it ran, <<>> before

axis_vars  == <<A, B, C, axis_out>>
build_vars == <<pc, input_len, slices, bb, i, i0, agls, bond_lens, bond_bend,
                saved, error>>
clash_vars == <<current_chain, last_chain, out_vectorized, out_found>>
torsion_vars == <<data, ncols, validate_out, torsion_out>>
\* The variables of the components added after the first three.
read_vars == <<files, read_pc, entry, line_no, prev_SS, prev_fragment,
               prev_fragment_data, result_dict>>
mc_vars == <<input_data, ncores, run_pc, tasks, unfinished, queue_results,
             buffer, worker_pc, next_task, nput, numjobs, results, taken_by,
             ran>>
dssp_vars == <<command, cmd, pdb_paths, dssp_tasks, executed>>
rest_vars == <<torsion_vars, read_vars, mc_vars, dssp_vars>>
vars == <<axis_vars, build_vars, clash_vars, rest_vars>>

\* No call was made yet.
NoCall == [outcome |-> "none"]

--------------------------------------------------------------------------
(* Vectors                                                                *)

Zero3 == <<0, 0, 0>>

Subtract(a, b) == <<a[1] - b[1], a[2] - b[2], a[3] - b[3]>>

Add(a, b) == <<a[1] + b[1], a[2] + b[2], a[3] + b[3]>>

Scale(k, a) == <<k * a[1], k * a[2], k * a[3]>>

Cross(a, b) == <<a[2] * b[3] - a[3] * b[2],
                 a[3] * b[1] - a[1] * b[3],
                 a[1] * b[2] - a[2] * b[1]>>

Sign(n) == IF n > 0 THEN 1 ELSE IF n < 0 THEN -1 ELSE 0

\* Squared Euclidean distance of two points.
Dist2(a, b) ==
    LET d == Subtract(a, b) IN d[1] * d[1] + d[2] * d[2] + d[3] * d[3]

\* np.linalg.norm(v) > 0.0: the norm of a vector is 0 exactly for the zero
\* vector.
NormPositive(v) == v # Zero3

\* `v /= norm(v)`: v divided by its own norm.
Normalized(v) == [num |-> v, normalized |-> TRUE]

\* v left as it is.
Plain(v) == [num |-> v, normalized |-> FALSE]

\* A vector along one coordinate axis (or the zero vector).
AlongAxis(v) == Cardinality({k \in 1..3 : v[k] # 0}) <= 1

\* The numbers of a returned vector.  The defined cases are the exact ones: a
\* vector that was not divided, and a divided vector along one axis.  (0/0 is
\* numpy's nan; it is kept as 0 here and only the unguarded variant of
\* make_axis_vectors produces it.)
Value(u) ==
    IF ~u.normalized THEN u.num
    ELSE CASE AlongAxis(u.num) ->
                  <<Sign(u.num[1]), Sign(u.num[2]), Sign(u.num[3])>>

--------------------------------------------------------------------------
(* libcalc.make_axis_vectors                                              *)

\* A variant that divides each vector by its norm without testing the norm.
make_axis_vectors_unguarded(pA, pB, pC) ==
    LET AB_vect       == Subtract(pA, pB)
        parallel_ABC  == Cross(AB_vect, Subtract(pC, pB))
        perpendicular == Cross(AB_vect, parallel_ABC)
    IN  [parallel_ABC  |-> Normalized(parallel_ABC),
         AB_vect       |-> Normalized(AB_vect),
         perpendicular |-> Normalized(perpendicular),
         A |-> pA, B |-> pB, C |-> pC]

\* The three returned vectors, and the input arrays as the call leaves them:
\* np.subtract and np.cross return new arrays, and the in-place divisions act
\* on those, so A, B and C are not written.
make_axis_vectors(pA, pB, pC) ==
    LET AB_vect       == Subtract(pA, pB)
        parallel_ABC  == Cross(AB_vect, Subtract(pC, pB))
        perpendicular == Cross(AB_vect, parallel_ABC)
        Div(v)        == IF NormPositive(v) THEN Normalized(v) ELSE Plain(v)
    IN  [parallel_ABC  |-> Div(parallel_ABC),
         AB_vect       |-> Div(AB_vect),
         perpendicular |-> Div(perpendicular),
         A |-> pA, B |-> pB, C |-> pC]

\* AXIS_111, the identity matrix, as a tuple of rows.
AXIS_111 == <<<<1, 0, 0>>, <<0, 1, 0>>, <<0, 0, 1>>>>

Dot(a, b) == a[1] * b[1] + a[2] * b[2] + a[3] * b[3]

Column(m, k) == <<m[1][k], m[2][k], m[3][k]>>

Transpose(m) == <<Column(m, 1), Column(m, 2), Column(m, 3)>>

\* np.dot of two 3x3 matrices.
MatMul(m, n) ==
    [r \in 1..3 |-> [c \in 1..3 |-> Dot(m[r], Column(n, c))]]

\* libcalc.rotation_to_plane
rotation_to_plane(pA, pB, pC) ==
    LET f == make_axis_vectors(pA, pB, pC)
        b == <<Value(f.AB_vect),
               Scale(-1, Value(f.perpendicular)),
               Value(f.parallel_ABC)>>
    IN  Transpose(MatMul(b, AXIS_111))

\* A double of the placement arithmetic: whole + eps * e + eps2 * e^2, where
\* e = 6.123233995736766e-17 is math.cos of the double nearest pi / 2.
Float(w, e1, e2) == [whole |-> w, eps |-> e1, eps2 |-> e2]

\* The double of a whole number.
Exact(n) == Float(n, 0, 0)

Abs(n) == IF n < 0 THEN -n ELSE n

\* The largest power of two that is at most n, for n >= 1.
Binade(n) == CHOOSE p \in {2 ^ k : k \in 0..20} : p <= n /\ n < 2 * p

\* x + t for a whole x # 0 and t = k * e is the double x itself: t is less
\* than half the distance from x to the next double on the side of t.  That
\* distance is 2^-52 times the binade of |x|, and half of it when |x| is a
\* power of two and t points to zero; e * 2^53 = 0.55153... < 0.5516.
Absorbed(x, k) ==
    LET towards_zero == Sign(x) # Sign(k)
        half_gaps == IF Abs(x) = Binade(Abs(x)) /\ towards_zero THEN 2 ELSE 1
    IN  half_gaps * Abs(k) * 5516 < Binade(Abs(x)) * 10000

\* The double nearest to whole + eps * e + eps2 * e^2.  It is that number
\* when it has one term; a term in e or e^2 added to a whole number other
\* than zero is lost when it is absorbed.
RoundFloat(x) ==
    CASE x.eps = 0 /\ x.eps2 = 0 -> x
      [] x.whole = 0 /\ (x.eps = 0 \/ x.eps2 = 0) -> x
      [] x.whole # 0 /\ x.eps = 0 /\ x.eps2 # 0 -> Exact(x.whole)
      [] x.whole # 0 /\ x.eps # 0 /\ Absorbed(x.whole, x.eps) -> Exact(x.whole)

\* x * y of two doubles with one term each.
Times(x, y) ==
    Float(x.whole * y.whole,
          x.whole * y.eps + x.eps * y.whole,
          x.whole * y.eps2 + x.eps * y.eps + x.eps2 * y.whole)

\* x + y
Plus(x, y) ==
    RoundFloat(Float(x.whole + y.whole, x.eps + y.eps, x.eps2 + y.eps2))

\* np.dot of a vector of doubles and a 3x3 matrix of whole numbers.
VecMat(v, m) ==
    [c \in 1..3 |->
        Plus(Plus(Times(v[1], Exact(m[1][c])), Times(v[2], Exact(m[2][c]))),
             Times(v[3], Exact(m[3][c])))]

\* math.cos(q * pi / 2) for q in 0..10: 1 and -1 for even q, and e, -3e, 5e,
\* -7e, 9e for q = 1, 3, 5, 7, 9.
Cos4(q) ==
    CASE q \in 0..10 /\ q % 4 = 0 -> Exact(1)
      [] q \in 0..10 /\ q % 4 = 1 -> Float(0, q, 0)
      [] q \in 0..10 /\ q % 4 = 2 -> Exact(-1)
      [] q \in 0..10 /\ q % 4 = 3 -> Float(0, -q, 0)

\* math.sin(q * pi / 2) for q in 0..10: 0.0 for q = 0, 1 and -1 for odd q,
\* and 2e, -4e, 6e, -8e, 10e for q = 2, 4, 6, 8, 10.
Sin4(q) ==
    CASE q = 0 -> Exact(0)
      [] q \in 1..10 /\ q % 4 = 1 -> Exact(1)
      [] q \in 1..10 /\ q % 4 = 2 -> Float(0, q, 0)
      [] q \in 1..10 /\ q % 4 = 3 -> Exact(-1)
      [] q \in 1..10 /\ q % 4 = 0 -> Float(0, -q, 0)

\* libcalc.make_coord_from_angles
make_coord_from_angles(theta, phi, distance) ==
    <<Times(Exact(distance), Cos4(phi)),
      Times(Times(Exact(distance), Sin4(phi)), Cos4(theta)),
      Times(Times(Exact(distance), Sin4(phi)), Sin4(theta))>>

\* libcalc.make_coord, for points of whole numbers.  Nothing in it tests the
\* frame: with a degenerate frame the zero vectors of make_axis_vectors are
\* used as they are.
make_coord(theta, phi, distance, parent, xaxis, yaxis) ==
    LET new_coord == make_coord_from_angles(theta, phi, distance)
        rotation  == rotation_to_plane(parent, xaxis, yaxis)
        rotated   == VecMat(new_coord, Transpose(rotation))
    IN  [k \in 1..3 |-> Plus(rotated[k], Exact(parent[k]))]

\* The frame of (parent, xaxis, yaxis) is degenerate: a vector of
\* make_axis_vectors has length zero (the points are collinear or coincide).
DegenerateFrame(parent, xaxis, yaxis) ==
    LET f == make_axis_vectors(parent, xaxis, yaxis)
    IN  \/ f.parallel_ABC.num = Zero3
        \/ f.AB_vect.num = Zero3
        \/ f.perpendicular.num = Zero3

--------------------------------------------------------------------------
(* make_axis_vectors on three points                                      *)

\* Largest x and y coordinate of the points make_axis_vectors is called on.
MaxCoord == 2

AxisPoints == {<<x, y, z>> : x \in 0..MaxCoord, y \in 0..MaxCoord, z \in 0..1}

\* main is not running.
BuildIdle ==
    /\ pc = "idle" /\ input_len = 0 /\ slices = {} /\ bb = <<>>
    /\ i = 0 /\ i0 = 0 /\ agls = <<>> /\ bond_lens = 0 /\ bond_bend = 0
    /\ saved = <<>> /\ error = ""

\* No chain is being validated.
ClashIdle ==
    /\ current_chain = <<>> /\ last_chain = <<>>
    /\ out_vectorized = NoCall /\ out_found = NoCall

\* No DSSPTask is created.
DSSPIdle ==
    /\ command = <<>> /\ cmd = <<>> /\ pdb_paths = <<>>
    /\ dssp_tasks = <<>> /\ executed = <<>>

\* JoinedResults.run is not run.
MulticoreIdle ==
    /\ input_data = <<>> /\ ncores = 0 /\ run_pc = "idle"
    /\ tasks = <<>> /\ unfinished = 0 /\ queue_results = <<>>
    /\ buffer = <<>>
    /\ worker_pc = <<>> /\ next_task = <<>> /\ nput = 0 /\ numjobs = 0
    /\ results = <<>> /\ taken_by = <<>> /\ ran = <<>>

\* read_data_into_dict is not run.
ReadIdle ==
    /\ files = <<>> /\ read_pc = "idle" /\ entry = 0 /\ line_no = 0
    /\ prev_SS = "" /\ prev_fragment = <<>> /\ prev_fragment_data = <<>>
    /\ result_dict = <<>>

\* No array is given to the torsion functions.
TorsionIdle ==
    /\ data = <<>> /\ ncols = 0
    /\ validate_out = NoCall /\ torsion_out = NoCall

\* The components added after the first three are not run.
RestIdle == TorsionIdle /\ ReadIdle /\ MulticoreIdle /\ DSSPIdle

\* No call of make_axis_vectors.
AxisIdle == A = Zero3 /\ B = Zero3 /\ C = Zero3 /\ axis_out = NoCall

InitAxis ==
    /\ A \in AxisPoints /\ B \in AxisPoints /\ C \in AxisPoints
    /\ axis_out = NoCall
    /\ BuildIdle /\ ClashIdle /\ RestIdle

\* One call make_axis_vectors(A, B, C).
CallMakeAxisVectors ==
    /\ axis_out.outcome = "none"
    /\ LET r == make_axis_vectors(A, B, C)
       IN  /\ axis_out' = [outcome |-> "return",
                           parallel_ABC |-> r.parallel_ABC,
                           AB_vect |-> r.AB_vect,
                           perpendicular |-> r.perpendicular]
           /\ A' = r.A /\ B' = r.B /\ C' = r.C
    /\ UNCHANGED <<build_vars, clash_vars, rest_vars>>

NextAxis == CallMakeAxisVectors

SpecAxis == InitAxis /\ [][NextAxis]_vars

--------------------------------------------------------------------------
(* C8 *)

\* Three points on one line, coincident points included.
Collinear(p, q, r) == Cross(Subtract(p, q), Subtract(r, q)) = Zero3

ReturnedVectors ==
    {axis_out.parallel_ABC, axis_out.AB_vect, axis_out.perpendicular}

\* C8: make_axis_vectors returns for every three collinear points (A = B or
\* C = B included) the normal and the perpendicular as zero vectors that were
\* not divided, and for A = B also AB_vect as such a zero vector; a returned
\* vector was divided by its norm only if its length is greater than zero; the
\* call always returns, and it leaves the arrays A, B and C as they were.
C8_AxisVectorsDegenerate ==
    /\ [](axis_out.outcome = "return" =>
            /\ Collinear(A, B, C) =>
                  /\ axis_out.parallel_ABC = Plain(Zero3)
                  /\ axis_out.perpendicular = Plain(Zero3)
            /\ A = B => axis_out.AB_vect = Plain(Zero3)
            /\ \A v \in ReturnedVectors : v.normalized => NormPositive(v.num))
    /\ [][CallMakeAxisVectors =>
            /\ axis_out'.outcome = "return"
            /\ A' = A /\ B' = B /\ C' = C]_vars

\* make_axis_vectors has returned for three distinct points on one line.
C8_Witness ==
    /\ axis_out.outcome = "return"
    /\ Collinear(A, B, C) /\ A # B /\ C # B /\ A # C

--------------------------------------------------------------------------
(* cli_build.main: the inputs                                             *)

\* Largest len(input_seq).
MaxSeqLen == 3

\* Largest number of residues of a window of the database.
MaxWindow == 3

\* Largest number of windows in slices.
MaxSlices == 2

\* The torsion columns of the aligned database, one row (phi, psi, omega) per
\* residue, in quarter turns.
angles == << <<1, 0, 3>>, <<0, 1, 1>>, <<2, 0, 1>>, <<3, 2, 0>> >>

\* The windows regex_search can return: slice(start, stop) objects over the
\* rows of the database, 0 <= start < stop <= len(angles).
Windows ==
    {w \in (0..Len(angles)) \X (0..Len(angles)) :
        w[1] < w[2] /\ w[2] - w[1] <= MaxWindow}

\* pi, a half turn, in quarter turns.
Pi == 2

\* idpconfgen.core.definitions: the bond lengths, in 0.01 Angstrom, and the
\* bend angles, in quarter turns.
distance_N_CA == 146

distance_CA_C == 153

distance_C_Np1 == 133

average_N_CA_C == 1

average_CA_C_Np1 == 1

average_Cm1_N_CA == 1

\* generate_atom_labels and bb_mask: every residue has one N, one CA and one
\* C, so the backbone array has 3 rows per residue.
num_bb(len_seq) == 3 * len_seq

\* s[a:b] of Python for 0 <= a and b < 0, on a sequence counted from 1.
PySlice(s, a, b) == SubSeq(s, a + 1, Len(s) + b)

RECURSIVE Ravel(_)
\* numpy ravel of a sequence of rows.
Ravel(rows) == IF rows = <<>> THEN <<>> ELSE Head(rows) \o Ravel(Tail(rows))

\* A variant of the cut that drops the last value only at the end.
FragmentTorsionsOneDropped(w) == PySlice(Ravel(SubSeq(angles, w[1] + 1, w[2])), 1, -1)

\* A variant of the cut that keeps the first value.
FragmentTorsionsFirstKept(w) == PySlice(Ravel(SubSeq(angles, w[1] + 1, w[2])), 0, -2)

\* angles[w, :].ravel()[1:-2]
FragmentTorsions(w) == PySlice(Ravel(SubSeq(angles, w[1] + 1, w[2])), 1, -2)

\* next() of itertools.cycle over three items: the item and the new position.
CycleItem(items, pos) == items[pos + 1]

\* A variant of next() that starts over after the second item.
CycleNextOfTwo(pos) == (pos + 1) % 2

CycleNext(pos) == (pos + 1) % 3

BondLens == <<distance_C_Np1, distance_N_CA, distance_CA_C>>

BondBend == <<Pi - average_CA_C_Np1, Pi - average_Cm1_N_CA, Pi - average_N_CA_C>>

\* make_coord_Q(v1, v2, v3, distance, bend, torsion): the new atom is placed
\* from the parent v3 with v2 and v1 as the x and y reference points.
make_coord_Q(v1, v2, v3, distance, bend, torsion) ==
    make_coord(bend, torsion, distance, v3, v2, v1)

\* bb[k, :] = c: the row as it is written.  In every build the coordinates
\* written are whole numbers.
Row(c) == [k \in 1..3 |-> CASE c[k].eps = 0 /\ c[k].eps2 = 0 -> c[k].whole]

\* A variant of the index test that stops one row early.
InBoundsOneShort(k, n) == 0 <= k /\ k < n - 1

\* bb[k, :] = ... succeeds for an index of the array and raises IndexError
\* otherwise (k is never negative here).
InBounds(k, n) == 0 <= k /\ k < n

\* A variant of the handler that undoes the fragment.
CursorAfterBreakRolledBack(cursor, start) == start

\* except IndexError: break.  The cursor stays where it is.
CursorAfterBreak(cursor, start) == cursor

\* The exception that ends the growth loop (the except clause of the loop).
EndOfGrowthSignal == "IndexError"

--------------------------------------------------------------------------
(* cli_build.main: the steps                                              *)

InitBuild ==
    /\ pc = "start"
    /\ input_len \in 0..MaxSeqLen
    /\ slices \in {S \in SUBSET Windows : Cardinality(S) <= MaxSlices}
    /\ bb = <<>> /\ i = 0 /\ i0 = 0 /\ agls = <<>>
    /\ bond_lens = 0 /\ bond_bend = 0 /\ saved = <<>> /\ error = ""
    /\ AxisIdle /\ ClashIdle /\ RestIdle

\* Lines 95-160 for a sequence of at least one residue: the arrays are made,
\* the first three atoms are placed, the cycles and the cursor are set.
Seed ==
    /\ pc = "start" /\ input_len > 0
    /\ LET zeros == [k \in 0..(num_bb(input_len) - 1) |-> Zero3]
           ca    == <<distance_N_CA, 0, 0>>
           c     == Row(make_coord_Q(<<0, distance_N_CA, 0>>, zeros[0], ca,
                                     distance_CA_C, Pi - average_N_CA_C, 0))
       IN  bb' = [[zeros EXCEPT ![1] = ca] EXCEPT ![2] = c]
    /\ bond_lens' = 0 /\ bond_bend' = 0
    /\ i' = 3
    /\ pc' = "draw"
    /\ UNCHANGED <<input_len, slices, i0, agls, saved, error>>
    /\ UNCHANGED <<axis_vars, clash_vars, rest_vars>>

\* Line 121 for the empty sequence: generate_residue_numbers reads
\* atom_labels[0] of an empty array; the IndexError leaves main.
SeedEmptySequence ==
    /\ pc = "start" /\ input_len = 0
    /\ pc' = "failed" /\ error' = "IndexError"
    /\ UNCHANGED <<input_len, slices, bb, i, i0, agls, bond_lens, bond_bend, saved>>
    /\ UNCHANGED <<axis_vars, clash_vars, rest_vars>>

\* Lines 163-164: one window is chosen, its torsions cut, i0 set.  A fragment
\* without torsions ends the for loop at once and the next one is drawn.
Draw ==
    /\ pc = "draw" /\ slices # {}
    /\ \E w \in slices :
          /\ agls' = FragmentTorsions(w)
          /\ pc' = IF agls' = <<>> THEN "draw" ELSE "place"
    /\ i0' = i
    /\ UNCHANGED <<input_len, slices, bb, i, bond_lens, bond_bend, saved, error>>
    /\ UNCHANGED <<axis_vars, clash_vars, rest_vars>>

\* Line 163 with no window: random.choice of an empty list raises IndexError,
\* outside the try, so it leaves main.
DrawEmptyPool ==
    /\ pc = "draw" /\ slices = {}
    /\ pc' = "failed" /\ error' = "IndexError"
    /\ UNCHANGED <<input_len, slices, bb, i, i0, agls, bond_lens, bond_bend, saved>>
    /\ UNCHANGED <<axis_vars, clash_vars, rest_vars>>

\* The coordinate lines 167-175 compute for the next torsion.
NextCoord ==
    Row(make_coord_Q(bb[i - 3], bb[i - 2], bb[i - 1],
                     CycleItem(BondLens, bond_lens),
                     CycleItem(BondBend, bond_bend),
                     Head(agls)))

\* Lines 166-176, one pass of the for loop with the row i in the array.
Place ==
    /\ pc = "place" /\ InBounds(i, num_bb(input_len))
    /\ bb' = [bb EXCEPT ![i] = NextCoord]
    /\ bond_lens' = CycleNext(bond_lens)
    /\ bond_bend' = CycleNext(bond_bend)
    /\ i' = i + 1
    /\ agls' = Tail(agls)
    /\ pc' = IF agls' = <<>> THEN "draw" ELSE "place"
    /\ UNCHANGED <<input_len, slices, i0, saved, error>>
    /\ UNCHANGED <<axis_vars, clash_vars, rest_vars>>

\* Lines 167-204, the pass whose row is not in the array: the right-hand side
\* is evaluated (both cycles advance), the assignment raises IndexError, the
\* handler breaks out of the while loop.
Overflow ==
    /\ pc = "place" /\ ~InBounds(i, num_bb(input_len))
    /\ bond_lens' = CycleNext(bond_lens)
    /\ bond_bend' = CycleNext(bond_bend)
    /\ i' = CursorAfterBreak(i, i0)
    /\ pc' = "break"
    /\ UNCHANGED <<input_len, slices, bb, i0, agls, saved, error>>
    /\ UNCHANGED <<axis_vars, clash_vars, rest_vars>>

\* Lines 214-224: the backbone rows are handed to save_conformer_to_disk.
Save ==
    /\ pc = "break"
    /\ saved' = bb
    /\ pc' = "saved"
    /\ UNCHANGED <<input_len, slices, bb, i, i0, agls, bond_lens, bond_bend, error>>
    /\ UNCHANGED <<axis_vars, clash_vars, rest_vars>>

NextBuild ==
    \/ Seed
    \/ SeedEmptySequence
    \/ Draw
    \/ DrawEmptyPool
    \/ Place
    \/ Overflow
    \/ Save

SpecBuild == InitBuild /\ [][NextBuild]_vars

\* The steps Seed and Place, told by what they do to the cursor (lines 158
\* and 176).
CursorStep ==
    \/ pc = "start" /\ input_len > 0 /\ i' = 3
    \/ pc = "place" /\ InBounds(i, num_bb(input_len)) /\ i' = i + 1

\* main is one thread that runs whenever it can take a step: a step that
\* moves the cursor, or one of the other steps.
SpecBuildFair ==
    /\ SpecBuild
    /\ WF_i(CursorStep)
    /\ WF_vars(SeedEmptySequence \/ Draw \/ DrawEmptyPool \/ Overflow \/ Save)

--------------------------------------------------------------------------
(* alphas/clash_validator.py                                              *)
(* A chain is a sequence of residues, a residue the sequence of the        *)
(* coordinates of its atoms in the order N, CA, C, O.  Python's residue    *)
(* index p is position p + 1 of the sequence.                              *)

\* VDW = np.array([1.55, 1.7, 1.7, 1.52]), in 0.01 Angstrom.
VDW == <<155, 170, 170, 152>>

\* How the double-precision sum VDW[r] + VDW[c] of line 27 lies to the
\* decimal sum of the two radii: 1 above it (1.55 + 1.52 is
\* 3.0700000000000003), -1 below it (1.7 + 1.52 is 3.2199999999999998),
\* 0 the double of the decimal sum itself.
SumRounding ==
    << <<0, 0, 0, 1>>,
       <<0, 0, 0, -1>>,
       <<0, 0, 0, -1>>,
       <<1, -1, -1, 0>> >>

\* np.add.outer(VDW, VDW), rows and columns counted from 0: the decimal sum
\* in 0.01 Angstrom and the side of it the double lies on.
allowed_distances(r, c) ==
    [hundredths |-> VDW[r + 1] + VDW[c + 1],
     rounding   |-> SumRounding[r + 1][c + 1]]

Return(b) == [outcome |-> "return", value |-> b]

\* The call ended with a ValueError.
RaiseValueError == [outcome |-> "raise", value |-> FALSE]

Max(a, b) == IF a > b THEN a ELSE b

\* math.ceil(n / 4)
Ceil4(n) == (n + 3) \div 4

\* The atoms p and q differ in one coordinate only, which is 0 for one of
\* them: cdist then returns the square root of the square of the other atom's
\* coordinate, which is the double of that coordinate itself.
ApartOnOneAxisFromZero(p, q) ==
    \E k \in 1..3 :
        /\ p[k] # q[k] /\ (p[k] = 0 \/ q[k] = 0)
        /\ \A m \in (1..3) \ {k} : p[m] = q[m]

\* A variant of the comparison that also counts touching spheres.
LessOrEqual(p, q, allowed) ==
    Dist2(p, q) <= allowed.hundredths * allowed.hundredths

\* distances < allowed_distances, for the entry of the atoms p and q (line
\* 23 and line 32).  Off the decimal sum of the radii the roundings of the
\* doubles do not decide.  At the decimal sum the distance cdist returns is
\* known for atoms apart on one axis from zero: it is the double of the
\* decimal sum, which is below the double of the table when that one lies
\* above the decimal sum.  For other atoms at exactly the decimal sum the
\* outcome hangs on the roundings of the squares and is not modelled.
Less(p, q, allowed) ==
    LET d2 == Dist2(p, q)
        h2 == allowed.hundredths * allowed.hundredths
    IN  CASE d2 < h2 -> TRUE
          [] d2 > h2 -> FALSE
          [] d2 = h2 /\ ApartOnOneAxisFromZero(p, q) -> allowed.rounding > 0

\* A variant of the settled window that drops one residue only.
SettledSliceOneDropped(last) == {k \in 0..(Len(last) - 1) : k < Len(last) - 1}

\* The residue indices of last_chain[:-2] (line 19).
SettledSlice(last) == {k \in 0..(Len(last) - 1) : k < Len(last) - 2}

\* The residue indices of current_chain[len(last_chain)+1:] (line 20).
NewSlice(cur, last) == {k \in 0..(Len(cur) - 1) : k >= Len(last) + 1}

\* range(0, len(last_chain)-2) (line 51).
SettledRange(last) == 0..(Len(last) - 3)

\* range(len(last_chain)+1, len(current_chain)) (line 55).
NewRange(cur, last) == (Len(last) + 1)..(Len(cur) - 1)

RECURSIVE Concatenate(_)
\* np.concatenate of the atom arrays of a list of residues.
Concatenate(residues) ==
    IF residues = <<>> THEN <<>>
    ELSE Head(residues) \o Concatenate(Tail(residues))

\* The residues of a chain at a set of consecutive indices, in order.
ResiduesAt(chain, idx) ==
    IF idx = {} THEN <<>>
    ELSE LET lo == CHOOSE k \in idx : \A m \in idx : k <= m
         IN  [k \in 1..Cardinality(idx) |-> chain[lo + k]]

\* numpy's rule for comparing an array of n rows (or columns) with one of m:
\* the two go together when they are equal or one of them is 1.
Broadcasts(n, m) == n = m \/ n = 1 \/ m = 1

\* The row (or column) of an array of n that entry k of the broadcast result
\* reads, both counted from 0.
BroadcastIndex(k, n) == IF n = 1 THEN 0 ELSE k

\* any entry of `distances < allowed`, distances being the cdist of the atom
\* lists P and Q, and allowed an array of R rows and S columns whose entry
\* (r, c) is allowed_distances(r mod 4, c mod 4).
AnyLess(P, Q, R, S) ==
    \E r \in 0..(Max(Len(P), R) - 1), c \in 0..(Max(Len(Q), S) - 1) :
        Less(P[BroadcastIndex(r, Len(P)) + 1],
             Q[BroadcastIndex(c, Len(Q)) + 1],
             allowed_distances(BroadcastIndex(r, R) % 4,
                               BroadcastIndex(c, S) % 4))

\* ClashValidator.clash_found_vectorized
clash_found_vectorized(cur, last) ==
    LET settled == ResiduesAt(last, SettledSlice(last))
        new     == ResiduesAt(cur, NewSlice(cur, last))
        last_chain_vector    == Concatenate(settled)
        current_chain_vector == Concatenate(new)
        x == Len(last_chain_vector)
        y == Len(current_chain_vector)
    IN  IF settled = <<>> \/ new = <<>>
        THEN RaiseValueError        \* np.concatenate of an empty list
        ELSE IF ~Broadcasts(x, 4 * Ceil4(x))
        THEN RaiseValueError        \* shapes (x, y) and (4*ceil(x/4), y)
        ELSE Return(AnyLess(last_chain_vector, current_chain_vector,
                            4 * Ceil4(x), y))

\* The body of the two loops of clash_found for one pair of residues:
\* "clash", "clear", or "raise" when the ValueError of the handler's own
\* comparison leaves the method.
CompareResidues(previous_coords, new_coords) ==
    LET p == Len(previous_coords)
        q == Len(new_coords)
    IN  IF Broadcasts(p, 4) /\ Broadcasts(q, 4)
        THEN IF AnyLess(previous_coords, new_coords, 4, 4)
             THEN "clash" ELSE "clear"
        \* except ValueError: allowed_distances[:-1].T has 4 rows, 3 columns
        ELSE IF Broadcasts(p, 4) /\ Broadcasts(q, 3)
        THEN IF AnyLess(previous_coords, new_coords, 4, 3)
             THEN "clash" ELSE "clear"
        ELSE "raise"

\* The pairs (seen_index, new_index) in the order the loops visit them.
LoopPairs(cur, last) ==
    LET S == SettledRange(last)
        N == NewRange(cur, last)
        n == Cardinality(N)
    IN  IF S = {} \/ N = {} THEN <<>>
        ELSE [k \in 1..(Cardinality(S) * n) |->
                 <<(k - 1) \div n, Len(last) + 1 + ((k - 1) % n)>>]

RECURSIVE ScanPairs(_, _, _)
\* The loops from the k-th pair on: return True at the first clash.
ScanPairs(cur, last, pairs) ==
    IF pairs = <<>> THEN Return(FALSE)
    ELSE LET r == CompareResidues(last[Head(pairs)[1] + 1],
                                  cur[Head(pairs)[2] + 1])
         IN  CASE r = "clash" -> Return(TRUE)
               [] r = "raise" -> RaiseValueError
               [] OTHER -> ScanPairs(cur, last, Tail(pairs))

\* ClashValidator.clash_found
clash_found(cur, last) == ScanPairs(cur, last, LoopPairs(cur, last))

--------------------------------------------------------------------------
(* The two methods of ClashValidator called on one pair of chains         *)

\* Largest number of residues of current_chain.
MaxRes == 6

\* Residues the chains are made of (N, CA, C, O), in 0.01 Angstrom.  The N
\* of Touching is at 310 = 155 + 155 from the N of Anchor, the N of Inside at
\* less than that, the O of TouchingO at 322 = 170 + 152 from the CA of
\* Anchor, the O of TouchingNO at 307 = 155 + 152 from the N of Anchor; every
\* other atom is far from the atoms of Anchor.
Anchor == << <<0, 0, 0>>, <<0, -1000, 0>>, <<0, -2000, 0>>, <<0, -3000, 0>> >>

Touching == << <<0, 0, 310>>, <<0, 1000, 0>>, <<0, 2000, 0>>, <<0, 3000, 0>> >>

Inside == << <<185, 248, 0>>, <<0, 1000, 0>>, <<0, 2000, 0>>, <<0, 3000, 0>> >>

TouchingO == << <<0, 4000, 0>>, <<0, 5000, 0>>, <<0, 6000, 0>>, <<322, -1000, 0>> >>

TouchingNO == << <<0, 7000, 0>>, <<0, 8000, 0>>, <<0, 9000, 0>>, <<307, 0, 0>> >>

Residues == {Anchor, Touching, Inside, TouchingO, TouchingNO}

\* The chains: every residue has its four atoms, but the last residue of the
\* chain may lack its O.
Chains ==
    LET full == UNION {[1..n -> Residues] : n \in 0..MaxRes}
    IN  full \cup
        {[c EXCEPT ![Len(c)] = SubSeq(c[Len(c)], 1, 3)] : c \in full \ {<<>>}}

InitClash ==
    /\ current_chain \in Chains
    /\ \E n \in 0..Len(current_chain) : last_chain = SubSeq(current_chain, 1, n)
    /\ out_vectorized = NoCall /\ out_found = NoCall
    /\ AxisIdle /\ BuildIdle /\ RestIdle

\* clash_found_vectorized(current_chain, last_chain)
CallVectorized ==
    /\ out_vectorized.outcome = "none"
    /\ out_vectorized' = clash_found_vectorized(current_chain, last_chain)
    /\ UNCHANGED <<current_chain, last_chain, out_found>>
    /\ UNCHANGED <<axis_vars, build_vars, rest_vars>>

\* clash_found(current_chain, last_chain)
CallFound ==
    /\ out_found.outcome = "none"
    /\ out_found' = clash_found(current_chain, last_chain)
    /\ UNCHANGED <<current_chain, last_chain, out_vectorized>>
    /\ UNCHANGED <<axis_vars, build_vars, rest_vars>>

NextClash == CallVectorized \/ CallFound

SpecClash == InitClash /\ [][NextClash]_vars

--------------------------------------------------------------------------
(* The two methods called on atom groups with a 3-atom boundary residue   *)

\* Largest number of residues last_chain has, and largest number of
\* residues current_chain has after them.
MaxTerminalRes == 3

TerminalResidues == {Anchor, Inside}

\* n residues of four atoms.
FullChains(n) == [1..n -> TerminalResidues]

\* A chain of which the residue at position k may lack its O.
MayLackO(c, k) == {c, [c EXCEPT ![k] = SubSeq(c[k], 1, 3)]}

\* last_chain has a settled group (last_chain[:-2] is not empty) whose last
\* residue may have 3 atoms; current_chain is last_chain followed by at
\* least two residues, so the new group is not empty, and its last residue
\* may have 3 atoms.
InitClashTerminal ==
    /\ \E n \in 3..MaxTerminalRes, m \in 2..MaxTerminalRes :
       \E l \in FullChains(n), e \in FullChains(m) :
          /\ last_chain \in MayLackO(l, n - 2)
          /\ \E t \in MayLackO(e, m) : current_chain = last_chain \o t
    /\ out_vectorized = NoCall /\ out_found = NoCall
    /\ AxisIdle /\ BuildIdle /\ RestIdle

SpecClashTerminal == InitClashTerminal /\ [][NextClash]_vars

--------------------------------------------------------------------------
(* libcalc.py: calc_torsion_angles and validate_array_for_torsion         *)
(* The array is given by the labels of its rows (the column                *)
(* libstructure.col_name) and the number of columns of its coordinates;    *)
(* calc_torsion_angles is followed through the shapes of its arrays.       *)

\* Largest number of rows of the array.
MaxAtoms == 5

\* Largest number of columns of the coordinates.
MaxCols == 4

AtomLabels == {"N", "CA", "C", "O"}

TorsionReturn(n) == [outcome |-> "return", count |-> n, error |-> ""]

\* The call ended with the exception e and returned nothing.
TorsionRaise(e) == [outcome |-> "raise", count |-> 0, error |-> e]

Min(a, b) == IF a < b THEN a ELSE b

\* calc_torsion_angles on coords of shape (rows, cols): the outcome and the
\* number of angles returned.
calc_torsion_angles(rows, cols) ==
    IF ~(rows > 3) THEN TorsionRaise("AssertionError")        \* line 221
    ELSE IF ~(cols = 3) THEN TorsionRaise("AssertionError")   \* line 222
    ELSE LET q_vecs  == rows - 1        \* coords[1:, :] - coords[:-1, :]
             cross   == q_vecs - 1      \* np.cross(q_vecs[:-1], q_vecs[1:])
             unitary == cross
             u0      == unitary - 1     \* unitary[:-1, :]
             u1      == unitary - 1     \* unitary[1:, :]
             u3      == q_vecs - 2      \* q_vecs[1:-1]
             u2      == u3              \* np.cross(u3, u1), u3 and u1 alike
             cos_theta == Min(u0, u1)   \* np.diagonal(np.dot(u0, u1.T))
             sin_theta == Min(u0, u2)   \* np.diagonal(np.dot(u0, u2.T))
         IN  TorsionReturn(cos_theta)   \* arctan2(sin_theta, cos_theta)

ValidateReturn(text) == [outcome |-> "return", value |-> text]

\* data[0, ...] of an array without rows.
ValidateRaise(e) == [outcome |-> "raise", value |-> e]

\* validate_array_for_torsion(data), data given by its labels.
validate_array_for_torsion(labels) ==
    IF Len(labels) = 0 THEN ValidateRaise("IndexError")       \* data[0, ...]
    ELSE IF labels[1] # "N"
    THEN ValidateReturn("The first atom is not N, it should be!")
    ELSE IF Len(labels) % 3 # 0
    THEN ValidateReturn("Number of backbone atoms is not module of 3.")
    ELSE ValidateReturn("")

InitTorsion ==
    /\ data \in UNION {[1..n -> AtomLabels] : n \in 0..MaxAtoms}
    /\ ncols \in 0..MaxCols
    /\ validate_out = NoCall /\ torsion_out = NoCall
    /\ AxisIdle /\ BuildIdle /\ ClashIdle /\ ReadIdle /\ MulticoreIdle /\ DSSPIdle

\* validate_array_for_torsion(data)
CallValidate ==
    /\ validate_out.outcome = "none"
    /\ validate_out' = validate_array_for_torsion(data)
    /\ UNCHANGED <<data, ncols, torsion_out>>
    /\ UNCHANGED <<axis_vars, build_vars, clash_vars, read_vars, mc_vars, dssp_vars>>

\* calc_torsion_angles(coords), coords the coordinate columns of data
CallCalcTorsionAngles ==
    /\ torsion_out.outcome = "none"
    /\ torsion_out' = calc_torsion_angles(Len(data), ncols)
    /\ UNCHANGED <<data, ncols, validate_out>>
    /\ UNCHANGED <<axis_vars, build_vars, clash_vars, read_vars, mc_vars, dssp_vars>>

NextTorsion == CallValidate \/ CallCalcTorsionAngles

SpecTorsion == InitTorsion /\ [][NextTorsion]_vars

--------------------------------------------------------------------------
(* alphas/filtering_questions.py: read_data_into_dict                      *)
(* A line of a .data file, stripped and split at the commas, is the        *)
(* sequence (residue letter, label, fields ...); a string of residue       *)
(* letters is the sequence of its letters; a dict is a function on the set *)
(* of its keys.                                                            *)

\* Largest number of .data files in the folder.
MaxFiles == 2

\* Largest number of lines of a file.
MaxLines == 3

ResidueLetters == {"A", "G"}

\* The labels found in the files.
Labels == {"L", "H"}

\* Line l of file f: its record is one field, different for every line of
\* the folder, so that the records of two runs are never the same.
DataLine(f, l, letter, label) == <<letter, label, 10 * f + l>>

\* The files that can be at position f of the folder.
DataFiles(f) ==
    UNION {{[l \in 1..n |-> DataLine(f, l, c[l][1], c[l][2])] :
               c \in [1..n -> ResidueLetters \X Labels]} : n \in 0..MaxLines}

Folders ==
    UNION {{x \in [1..m -> UNION {DataFiles(f) : f \in 1..MaxFiles}] :
               \A f \in 1..m : x[f] \in DataFiles(f)} : m \in 0..MaxFiles}

EmptyDict == <<>>

\* d[key] = value of a dict.
SetItem(d, key, value) ==
    [k \in (DOMAIN d) \cup {key} |-> IF k = key THEN value ELSE d[k]]

\* result_dict[prev_SS][prev_fragment] = prev_fragment_data (lines 37, 45).
StoreFragment(rd, ss, fragment, fragment_data) ==
    [rd EXCEPT ![ss] = SetItem(rd[ss], fragment, fragment_data)]

\* line[2:]
LineData(line) == SubSeq(line, 3, Len(line))

\* Lines 14-19.
InitRead ==
    /\ files \in Folders
    /\ read_pc = "scan" /\ entry = 0 /\ line_no = 0
    /\ prev_SS = "" /\ prev_fragment = <<>> /\ prev_fragment_data = <<>>
    /\ result_dict = [ss \in {"L", "H", "S", "NEW"} |-> EmptyDict]
    /\ AxisIdle /\ BuildIdle /\ ClashIdle /\ TorsionIdle /\ MulticoreIdle /\ DSSPIdle

\* Lines 22-28: the next file is read and the run variables are set.
OpenFile ==
    /\ read_pc = "scan" /\ entry < Len(files)
    /\ entry' = entry + 1 /\ line_no' = 0
    /\ prev_SS' = "NEW" /\ prev_fragment' = <<>> /\ prev_fragment_data' = <<>>
    /\ read_pc' = "lines"
    /\ UNCHANGED <<files, result_dict>>
    /\ UNCHANGED <<axis_vars, build_vars, clash_vars, torsion_vars, mc_vars,
                   dssp_vars>>

\* Lines 29-33: the next line has the label of the run.
ReadLineSame ==
    /\ read_pc = "lines" /\ line_no < Len(files[entry])
    /\ LET line == files[entry][line_no + 1]
       IN  /\ line[2] = prev_SS
           /\ prev_fragment' = Append(prev_fragment, line[1])
           /\ prev_fragment_data' = prev_fragment_data \o LineData(line)
    /\ line_no' = line_no + 1
    /\ UNCHANGED <<files, read_pc, entry, prev_SS, result_dict>>
    /\ UNCHANGED <<axis_vars, build_vars, clash_vars, torsion_vars, mc_vars,
                   dssp_vars>>

\* Lines 29-30, 34-42: the next line has another label; the run is stored
\* and a new one begins.
ReadLineNew ==
    /\ read_pc = "lines" /\ line_no < Len(files[entry])
    /\ LET line == files[entry][line_no + 1]
       IN  /\ line[2] # prev_SS
           /\ result_dict' = StoreFragment(result_dict, prev_SS, prev_fragment,
                                            prev_fragment_data)
           /\ prev_SS' = line[2]
           /\ prev_fragment' = <<line[1]>>
           /\ prev_fragment_data' = LineData(line)
    /\ line_no' = line_no + 1
    /\ UNCHANGED <<files, read_pc, entry>>
    /\ UNCHANGED <<axis_vars, build_vars, clash_vars, torsion_vars, mc_vars,
                   dssp_vars>>

\* Line 45: after the last line of the file the run is stored.
CloseFile ==
    /\ read_pc = "lines" /\ line_no = Len(files[entry])
    /\ result_dict' = StoreFragment(result_dict, prev_SS, prev_fragment,
                                     prev_fragment_data)
    /\ read_pc' = "scan"
    /\ UNCHANGED <<files, entry, line_no, prev_SS, prev_fragment, prev_fragment_data>>
    /\ UNCHANGED <<axis_vars, build_vars, clash_vars, torsion_vars, mc_vars,
                   dssp_vars>>

\* Lines 46-48: del result_dict["NEW"]; return result_dict.
ReturnDict ==
    /\ read_pc = "scan" /\ entry = Len(files)
    /\ result_dict' = [ss \in (DOMAIN result_dict) \ {"NEW"} |-> result_dict[ss]]
    /\ read_pc' = "done"
    /\ UNCHANGED <<files, entry, line_no, prev_SS, prev_fragment, prev_fragment_data>>
    /\ UNCHANGED <<axis_vars, build_vars, clash_vars, torsion_vars, mc_vars,
                   dssp_vars>>

NextRead ==
    \/ OpenFile
    \/ ReadLineSame
    \/ ReadLineNew
    \/ CloseFile
    \/ ReturnDict

SpecRead == InitRead /\ [][NextRead]_vars

--------------------------------------------------------------------------
(* libs/libmulticore.py: JoinedResults.run and Worker.run                  *)
(* run() is the main process, every Worker a process of its own; a step of *)
(* the model is one queue operation or one task call of one process, or    *)
(* one write of the feeder thread of a worker's results queue.             *)

\* Largest ncores.
MaxCores == 2

\* Largest len(input_data).
MaxJobs == 4

\* The poison pill.
None == [kind |-> "None", input |-> 0]

\* self.TaskMethod(self.cmd, input_datum), a task object.
TaskMethod(input_datum) == [kind |-> "task", input |-> input_datum]

\* What calling the task of an input datum returns.
TaskResult(input_datum) == <<"stdout", input_datum>>

\* self.rp, the results parser.
rp(output) == <<"parsed", output>>

\* A variant of get() that leaves the item on the queue.
QueuePeek(q) == [item |-> Head(q), rest |-> q]

\* get() on a queue that is not empty: the oldest item is taken off.
QueueGet(q) == [item |-> Head(q), rest |-> Tail(q)]

InitMulticore ==
    /\ input_data \in {[k \in 1..n |-> k] : n \in 0..MaxJobs}
    /\ ncores \in 1..MaxCores
    /\ run_pc = "start"
    /\ tasks = <<>> /\ unfinished = 0 /\ queue_results = <<>>
    /\ buffer = [w \in 1..ncores |-> <<>>]
    /\ worker_pc = [w \in 1..ncores |-> "new"]
    /\ next_task = [w \in 1..ncores |-> None]
    /\ nput = 0 /\ numjobs = 0 /\ results = <<>>
    /\ taken_by = [k \in 1..Len(input_data) |-> <<>>]
    /\ ran = [k \in 1..Len(input_data) |-> 0]
    /\ AxisIdle /\ BuildIdle /\ ClashIdle /\ TorsionIdle /\ ReadIdle /\ DSSPIdle

\* Lines 235-238: the queues and the workers are made, the workers started.
BuildAndStart ==
    /\ run_pc = "start"
    /\ worker_pc' = [w \in 1..ncores |-> "get"]
    /\ run_pc' = "put"
    /\ UNCHANGED <<input_data, ncores, buffer, tasks, unfinished,
                   queue_results, next_task, nput, numjobs, results, taken_by,
                   ran>>
    /\ UNCHANGED <<axis_vars, build_vars, clash_vars, torsion_vars, read_vars,
                   dssp_vars>>

\* Lines 240-241: the task of the next input datum is put on the queue.
PutTask ==
    /\ run_pc = "put" /\ nput < Len(input_data)
    /\ tasks' = Append(tasks, TaskMethod(input_data[nput + 1]))
    /\ unfinished' = unfinished + 1
    /\ nput' = nput + 1
    /\ UNCHANGED <<input_data, ncores, buffer, run_pc, queue_results,
                   worker_pc, next_task, numjobs, results, taken_by, ran>>
    /\ UNCHANGED <<axis_vars, build_vars, clash_vars, torsion_vars, read_vars,
                   dssp_vars>>

\* Lines 244-245: one None is put for each worker.
PutPoison ==
    /\ run_pc = "put"
    /\ nput >= Len(input_data) /\ nput < Len(input_data) + ncores
    /\ tasks' = Append(tasks, None)
    /\ unfinished' = unfinished + 1
    /\ nput' = nput + 1
    /\ run_pc' = IF nput' = Len(input_data) + ncores THEN "join" ELSE "put"
    /\ UNCHANGED <<input_data, ncores, buffer, queue_results, worker_pc,
                   next_task, numjobs, results, taken_by, ran>>
    /\ UNCHANGED <<axis_vars, build_vars, clash_vars, torsion_vars, read_vars,
                   dssp_vars>>

\* Lines 247-250: join() returns when every item put was marked done.
Join ==
    /\ run_pc = "join" /\ unfinished = 0
    /\ numjobs' = Len(input_data)
    /\ results' = <<>>
    /\ run_pc' = "collect"
    /\ UNCHANGED <<input_data, ncores, buffer, tasks, unfinished,
                   queue_results, worker_pc, next_task, nput, taken_by, ran>>
    /\ UNCHANGED <<axis_vars, build_vars, clash_vars, torsion_vars, read_vars,
                   dssp_vars>>

\* Lines 251-253, one pass: get() waits for a result, which is parsed and
\* appended.
Collect ==
    /\ run_pc = "collect" /\ numjobs > 0 /\ queue_results # <<>>
    /\ results' = Append(results, rp(Head(queue_results)))
    /\ queue_results' = Tail(queue_results)
    /\ numjobs' = numjobs - 1
    /\ UNCHANGED <<input_data, ncores, buffer, run_pc, tasks, unfinished,
                   worker_pc, next_task, nput, taken_by, ran>>
    /\ UNCHANGED <<axis_vars, build_vars, clash_vars, torsion_vars, read_vars,
                   dssp_vars>>

\* Line 251 with numjobs = 0: run() returns.
ReturnFromRun ==
    /\ run_pc = "collect" /\ numjobs = 0
    /\ run_pc' = "returned"
    /\ UNCHANGED <<input_data, ncores, buffer, tasks, unfinished,
                   queue_results, worker_pc, next_task, nput, numjobs,
                   results, taken_by, ran>>
    /\ UNCHANGED <<axis_vars, build_vars, clash_vars, torsion_vars, read_vars,
                   dssp_vars>>

\* Line 38: the worker takes the oldest item; get() waits while there is
\* none.
Get(w) ==
    /\ w \in DOMAIN worker_pc /\ worker_pc[w] = "get" /\ tasks # <<>>
    /\ LET g == QueueGet(tasks)
       IN  /\ next_task' = [next_task EXCEPT ![w] = g.item]
           /\ tasks' = g.rest
           /\ worker_pc' = [worker_pc EXCEPT
                               ![w] = IF g.item = None THEN "pill" ELSE "call"]
           /\ taken_by' = IF g.item = None THEN taken_by
                          ELSE [taken_by EXCEPT
                                   ![g.item.input] = Append(@, w)]
    /\ UNCHANGED <<input_data, ncores, buffer, run_pc, unfinished,
                   queue_results, nput, numjobs, results, ran>>
    /\ UNCHANGED <<axis_vars, build_vars, clash_vars, torsion_vars, read_vars,
                   dssp_vars>>

\* Lines 39-42, 46: the item is None; it is marked done and run() of the
\* worker returns.
ExitOnPill(w) ==
    /\ w \in DOMAIN worker_pc /\ worker_pc[w] = "pill"
    /\ unfinished' = unfinished - 1
    /\ worker_pc' = [worker_pc EXCEPT ![w] = "exited"]
    /\ UNCHANGED <<input_data, ncores, buffer, run_pc, tasks, queue_results,
                   next_task, nput, numjobs, results, taken_by, ran>>
    /\ UNCHANGED <<axis_vars, build_vars, clash_vars, torsion_vars, read_vars,
                   dssp_vars>>

\* Line 43: the task is called.  It returns, or it raises: nothing in
\* Worker.run catches the exception, which ends the process.
CallTask(w) ==
    /\ w \in DOMAIN worker_pc /\ worker_pc[w] = "call"
    /\ ran' = [ran EXCEPT ![next_task[w].input] = @ + 1]
    /\ \E raised \in BOOLEAN :
          worker_pc' = [worker_pc EXCEPT
                           ![w] = IF raised THEN "died" ELSE "task_done"]
    /\ UNCHANGED <<input_data, ncores, buffer, run_pc, tasks, unfinished,
                   queue_results, next_task, nput, numjobs, results,
                   taken_by>>
    /\ UNCHANGED <<axis_vars, build_vars, clash_vars, torsion_vars, read_vars,
                   dssp_vars>>

\* Line 44: task_done(); it raises ValueError when no item is left to mark.
TaskDone(w) ==
    /\ w \in DOMAIN worker_pc /\ worker_pc[w] = "task_done"
    /\ IF unfinished > 0
       THEN /\ unfinished' = unfinished - 1
            /\ worker_pc' = [worker_pc EXCEPT ![w] = "put"]
       ELSE /\ unfinished' = unfinished
            /\ worker_pc' = [worker_pc EXCEPT ![w] = "died"]
    /\ UNCHANGED <<input_data, ncores, buffer, run_pc, tasks, queue_results,
                   next_task, nput, numjobs, results, taken_by, ran>>
    /\ UNCHANGED <<axis_vars, build_vars, clash_vars, torsion_vars, read_vars,
                   dssp_vars>>

\* Line 45: put() appends the result to the buffer the queue keeps in the
\* worker's process, and returns.
PutResult(w) ==
    /\ w \in DOMAIN worker_pc /\ worker_pc[w] = "put"
    /\ buffer' = [buffer EXCEPT ![w] = Append(@, TaskResult(next_task[w].input))]
    /\ worker_pc' = [worker_pc EXCEPT ![w] = "get"]
    /\ UNCHANGED <<input_data, ncores, run_pc, tasks, unfinished, queue_results,
                   next_task, nput, numjobs, results, taken_by, ran>>
    /\ UNCHANGED <<axis_vars, build_vars, clash_vars, torsion_vars, read_vars,
                   dssp_vars>>

\* Line 45, later: the feeder thread of the worker's process writes the
\* oldest result of the buffer to the pipe of the results queue, whatever the
\* worker itself is doing; a process that ends writes its buffer out first.
Feed(w) ==
    /\ w \in DOMAIN buffer /\ buffer[w] # <<>>
    /\ queue_results' = Append(queue_results, Head(buffer[w]))
    /\ buffer' = [buffer EXCEPT ![w] = Tail(@)]
    /\ UNCHANGED <<input_data, ncores, run_pc, tasks, unfinished, worker_pc,
                   next_task, nput, numjobs, results, taken_by, ran>>
    /\ UNCHANGED <<axis_vars, build_vars, clash_vars, torsion_vars, read_vars,
                   dssp_vars>>

\* A step of JoinedResults.run.
RunStep ==
    \/ BuildAndStart
    \/ PutTask
    \/ PutPoison
    \/ Join
    \/ Collect
    \/ ReturnFromRun

\* A step of Worker.run of worker w.
WorkerStep(w) ==
    \/ Get(w)
    \/ ExitOnPill(w)
    \/ CallTask(w)
    \/ TaskDone(w)
    \/ PutResult(w)

NextMulticore ==
    \/ RunStep
    \/ \E w \in 1..MaxCores : WorkerStep(w)
    \/ \E w \in 1..MaxCores : Feed(w)

SpecMulticore == InitMulticore /\ [][NextMulticore]_vars

\* Every process and every feeder thread that can take a step eventually
\* takes one.
SpecMulticoreFair ==
    /\ SpecMulticore
    /\ WF_vars(RunStep)
    /\ \A w \in 1..MaxCores : WF_vars(WorkerStep(w))
    /\ \A w \in 1..MaxCores : WF_vars(Feed(w))

--------------------------------------------------------------------------
(* libs/libmulticore.py: DSSPTask as JoinedResults.run creates it          *)
(* A Python string is the sequence of its pieces, a piece being a word or  *)
(* the blank " "; a Python list of strings is a sequence of such strings.  *)
(* A command object is a string (kind "str", items holds the one string)   *)
(* or a list of strings (kind "list").                                     *)

\* Largest len(input_data).
MaxPdbs == 3

PyStr(text) == [kind |-> "str", items |-> <<text>>]

PyList(strings) == [kind |-> "list", items |-> strings]

\* The commands JoinedResults is given.
Commands ==
    {PyStr(<<"dssp">>),
     PyStr(<<"dssp", " ", "-x">>),
     PyList(<< <<"dssp">> >>),
     PyList(<< <<"dssp">>, <<"-x">> >>),
     PyList(<< <<"dssp", " ", "-x">> >>)}

\* The names of the PDB files.
PdbNames == <<"1.pdb", "2.pdb", "3.pdb", "4.pdb", "5.pdb">>

\* str.split(): the words of a string, each a string of its own.
Split(text) ==
    LET words == SelectSeq(text, LAMBDA piece : piece # " ")
    IN  [k \in 1..Len(words) |-> <<words[k]>>]

RECURSIVE ExtendWithSplit(_)
\* Lines 120-122: the words of every item of a list, in order.
ExtendWithSplit(strings) ==
    IF strings = <<>> THEN <<>>
    ELSE Split(Head(strings)) \o ExtendWithSplit(Tail(strings))

\* The setter of SubprocessTask.cmd_exec (lines 113-122): _cmd_exec.
cmd_exec_setter(obj) ==
    IF obj.kind = "str" THEN Split(obj.items[1])
    ELSE ExtendWithSplit(obj.items)

\* DSSPTask.__init__(cmd, input_) (lines 153-164): the task made, and the
\* object the caller passed as cmd as the constructor leaves it.  append acts
\* on the caller's list; a string has no append and is left alone.
DSSPTask(obj, input_) ==
    LET appended == PyList(Append(obj.items, <<"-i">>))
        local    == IF obj.kind = "list" THEN appended
                    ELSE PyList(<<obj.items[1], <<"-i">>>>)
    IN  [caller |-> IF obj.kind = "list" THEN appended ELSE obj,
         task   |-> [cmd_exec |-> cmd_exec_setter(local),
                     input    |-> <<input_>>,
                     pdb_path |-> input_]]

\* SubprocessTask.prepare_cmd (lines 131-134); the input of a DSSPTask is a
\* list, so the concatenation does not raise.
prepare_cmd(task) == task.cmd_exec \o task.input

InitDSSP ==
    /\ command \in Commands
    /\ cmd = command
    /\ pdb_paths \in {[k \in 1..n |-> <<PdbNames[k]>>] : n \in 0..MaxPdbs}
    /\ dssp_tasks = <<>> /\ executed = <<>>
    /\ AxisIdle /\ BuildIdle /\ ClashIdle /\ TorsionIdle /\ ReadIdle
    /\ MulticoreIdle

\* Lines 240-241 with TaskMethod = DSSPTask: the task of the next input
\* datum is made from self.cmd.
CreateDSSPTask ==
    /\ Len(dssp_tasks) < Len(pdb_paths)
    /\ LET made == DSSPTask(cmd, pdb_paths[Len(dssp_tasks) + 1])
       IN  /\ cmd' = made.caller
           /\ dssp_tasks' = Append(dssp_tasks, made.task)
    /\ executed' = Append(executed, <<>>)
    /\ UNCHANGED <<command, pdb_paths>>
    /\ UNCHANGED <<axis_vars, build_vars, clash_vars, torsion_vars, read_vars,
                   mc_vars>>

\* Lines 166-170: a worker calls task k, which prepares and runs its command.
CallDSSPTask(k) ==
    /\ k \in DOMAIN dssp_tasks /\ executed[k] = <<>>
    /\ executed' = [executed EXCEPT ![k] = prepare_cmd(dssp_tasks[k])]
    /\ UNCHANGED <<command, cmd, pdb_paths, dssp_tasks>>
    /\ UNCHANGED <<axis_vars, build_vars, clash_vars, torsion_vars, read_vars,
                   mc_vars>>

NextDSSP == CreateDSSPTask \/ \E k \in 1..MaxPdbs : CallDSSPTask(k)

SpecDSSP == InitDSSP /\ [][NextDSSP]_vars

--------------------------------------------------------------------------
(* Claims about the build loop                                            *)

\* The label of backbone row k: 0 = N, 1 = CA, 2 = C.
BackboneLabel(k) == k % 3

\* The residue of backbone row k.
BackboneResidue(k) == k \div 3

\* The atoms p and q of a chain are closer than the sum of their radii.
AtomsClash(chain, p, q) ==
    LET allowed == VDW[BackboneLabel(p) + 1] + VDW[BackboneLabel(q) + 1]
    IN  Dist2(chain[p], chain[q]) < allowed * allowed

\* The rows a..b-1 (a fragment) clash with the rows before a: an atom of the
\* fragment and an atom before it, of residues that are not the same and not
\* neighbours, are closer than the sum of their radii.
FragmentClash(chain, a, b) ==
    \E p \in 0..(a - 1), q \in a..(b - 1) :
        /\ BackboneResidue(q) - BackboneResidue(p) >= 2
        /\ AtomsClash(chain, p, q)

\* Two of the first n rows of a chain clash.
ChainClash(chain, n) == \E b \in 1..n : FragmentClash(chain, b - 1, b)

\* Row k of a chain was placed from three reference rows with a degenerate
\* frame.
PlacedFromDegenerate(chain, k) ==
    DegenerateFrame(chain[k - 1], chain[k - 2], chain[k - 3])

\* The reasons a build may fail with.
NamedReasons == {"DegenerateGeometryError", "EmptyFragmentPool", "Stuck"}

\* C1: when the next fragment is about to be drawn, the fragment appended
\* last has passed the clash validator against the chain before it; a
\* fragment that clashes has been undone (the cursor is back at i0), so no
\* fragment that clashes with the chain before it is left in the chain.
C1_ClashGate ==
    (pc = "draw" /\ i > i0) => ~FragmentClash(bb, i0, i)

\* C2: a chain handed to save_conformer_to_disk is complete, has no clashing
\* pair of atoms and no atom placed from a degenerate frame, and a run that
\* does not save ends with one of the named reasons.
C2_SavedChainValid ==
    /\ pc = "saved" =>
          /\ DOMAIN saved = 0..(num_bb(input_len) - 1)
          /\ i = num_bb(input_len)
          /\ ~ChainClash(saved, num_bb(input_len))
          /\ ~\E k \in 3..(num_bb(input_len) - 1) : PlacedFromDegenerate(saved, k)
    /\ pc = "failed" => error \in NamedReasons

\* C5: when the growth loop has ended, the cursor is exactly
\* 3 * len(input_seq), and the chain handed to the serializer has exactly
\* that many rows.
C5_FullAtomBudget ==
    /\ pc \in {"break", "saved"} => i = 3 * input_len
    /\ pc = "saved" => DOMAIN saved = 0..(3 * input_len - 1)

\* A chain was saved after growth stopped in the middle of a fragment.
C5_Witness ==
    pc = "saved" /\ input_len >= 2 /\ i > i0

\* C6: the cursor never decreases, a step writes no row but row i (and then
\* moves the cursor past it), so a row below the cursor keeps its value, and
\* the chain saved is the array as it is; the step that ends growth leaves
\* the rows of the unfinished fragment in place.
C6_AppendOnly ==
    [][/\ i' >= i
       /\ \A k \in DOMAIN bb :
             /\ k < i => (k \in DOMAIN bb' /\ bb'[k] = bb[k])
             /\ (k \in DOMAIN bb' /\ bb'[k] # bb[k]) => (k = i /\ i' = i + 1)
       /\ (pc = "place" /\ pc' = "break") => (i' = i /\ bb' = bb)
       /\ pc' = "saved" => saved' = bb]_vars

\* Growth has stopped in the middle of a fragment of which atoms were placed.
C6_Witness == pc = "break" /\ i > i0 /\ i0 > 3

\* C7: a placement (of a row that is in the array) whose three reference
\* points give a degenerate frame writes no coordinate and ends growth in the
\* Degenerate state, the chain holding the atoms placed before it.
C7_DegenerateStops ==
    [][(/\ pc = "place"
        /\ InBounds(i, num_bb(input_len))
        /\ PlacedFromDegenerate(bb, i)) =>
          (bb' = bb /\ i' = i /\ pc' = "degenerate")]_vars

\* C9: with no window in slices the build fails with the reason
\* EmptyFragmentPool, which is not the signal that ends growth; no atom is
\* placed after the seed and nothing is saved.
C9_EmptyPoolNamed ==
    (slices = {} /\ input_len > 0) =>
        /\ i <= 3
        /\ pc \notin {"break", "saved"}
        /\ pc = "failed" => (error = "EmptyFragmentPool" /\ error # EndOfGrowthSignal)

\* The cycle of (bond length, bend angle) pairs: C->N with CA-C-N, N->CA
\* with C-N-CA, CA->C with N-CA-C.
BondCycle ==
    << <<distance_C_Np1, Pi - average_CA_C_Np1>>,
       <<distance_N_CA, Pi - average_Cm1_N_CA>>,
       <<distance_CA_C, Pi - average_N_CA_C>> >>

\* C17: while the chain grows, both cycles are at position (i - 3) mod 3; a
\* placement writes row i >= 3 from the rows i-3, i-2, i-1 with the pair of
\* the cycle at that position and the first torsion left, consumes that
\* torsion, moves both cycles one step and the cursor one row; drawing a
\* fragment leaves the cycles where they are, and the cursor moves in no
\* other step after the seed.
C17_CycleLockstep ==
    /\ [](pc \in {"draw", "place"} =>
             (bond_lens = bond_bend /\ bond_lens = (i - 3) % 3))
    /\ [][/\ (pc = "place" /\ pc' \in {"place", "draw"}) =>
               /\ i >= 3
               /\ bb' = [bb EXCEPT ![i] =
                            Row(make_coord_Q(bb[i - 3], bb[i - 2], bb[i - 1],
                                             BondCycle[((i - 3) % 3) + 1][1],
                                             BondCycle[((i - 3) % 3) + 1][2],
                                             Head(agls)))]
               /\ agls' = Tail(agls)
               /\ i' = i + 1
               /\ bond_lens' = (bond_lens + 1) % 3
               /\ bond_bend' = (bond_bend + 1) % 3
          /\ pc = "draw" => (bond_lens' = bond_lens /\ bond_bend' = bond_bend)
          /\ (i' # i /\ pc # "start") => (pc = "place" /\ agls' = Tail(agls))
       ]_vars

\* The second fragment is being placed, and its next atom is a C.
C17_Witness == pc = "place" /\ i0 = 6 /\ i = 8

\* The values at the positions first..last of the flattened torsions of the
\* window w, positions counted from 0: position j is column j mod 3 of the
\* residue j div 3 of the window.
FlatTorsions(w, first, last) ==
    [n \in 1..(last - first + 1) |->
        angles[w[1] + 1 + ((first + n - 1) \div 3)][((first + n - 1) % 3) + 1]]

\* A step that draws a fragment, or consumes a torsion of the fragment,
\* takes the torsions in order from the positions 1..last(k) of the
\* flattened torsions of a window of k residues.
ConsumesInterior(last(_)) ==
    /\ pc = "draw" =>
          \/ pc' \notin {"draw", "place"}
          \/ \E w \in slices : agls' = FlatTorsions(w, 1, last(w[2] - w[1]))
    /\ (pc = "place" /\ pc' \in {"place", "draw"}) =>
          /\ agls' = Tail(agls)
          /\ bb' = [bb EXCEPT ![i] =
                       Row(make_coord_Q(bb[i - 3], bb[i - 2], bb[i - 1],
                                        CycleItem(BondLens, bond_lens),
                                        CycleItem(BondBend, bond_bend),
                                        Head(agls)))]

LastButOne(k) == 3 * k - 2

LastButTwo(k) == 3 * k - 3

\* C18 as stated: of the 3k flattened torsions of a fragment of k residues
\* growth consumes, in order, the positions 1 .. 3k-2 (the first and the
\* last value discarded, 3k-2 torsions) and nothing else.
C18_InteriorTorsions == [][ConsumesInterior(LastButOne)]_vars

\* C18 amended: growth consumes, in order, the positions 1 .. 3k-3 (the
\* first and the last two values discarded, 3k-3 torsions) and nothing else.
C18_InteriorTorsionsAmended == [][ConsumesInterior(LastButTwo)]_vars

\* A fragment of three residues was drawn: six torsions are to be consumed.
C18_Witness == pc = "place" /\ i = i0 /\ Len(agls) = 6

\* C19: with a window in slices, whatever windows are drawn, the growth
\* loop ends after finitely many draws, windows of one residue (no torsion,
\* no atom placed) included; and when it has ended the cursor is at the atom
\* budget with the torsion whose atom did not fit still to be consumed.
C19_GrowthTerminates ==
    /\ (pc = "draw" /\ slices # {}) ~> (pc = "break")
    /\ [](pc = "break" => (i = num_bb(input_len) /\ agls # <<>>))

\* The columns of the torsion array: a row is (phi, psi, omega).
PhiColumn == 0

PsiColumn == 1

OmegaColumn == 2

\* The torsions left in agls are those of a window of slices from the flat
\* position 1 + (i - i0) on: the first one left is at that position.
LeftFromPosition ==
    \E w \in slices :
        /\ 1 + (i - i0) <= LastButTwo(w[2] - w[1])
        /\ agls = FlatTorsions(w, 1 + (i - i0), LastButTwo(w[2] - w[1]))

\* The column of the torsion the next placement consumes.
NextTorsionColumn == (1 + (i - i0)) % 3

\* C20: at every draw the cursor is a multiple of 3; the torsion the next
\* placement consumes is psi when row i is an N, omega when it is a CA and
\* phi when it is a C, so the first torsion of a fragment, the psi of its
\* first residue, places an N.
C20_KindsAligned ==
    /\ pc = "draw" => i % 3 = 0
    /\ pc = "place" =>
          /\ i0 % 3 = 0
          /\ LeftFromPosition
          /\ BackboneLabel(i) = 0 => NextTorsionColumn = PsiColumn
          /\ BackboneLabel(i) = 1 => NextTorsionColumn = OmegaColumn
          /\ BackboneLabel(i) = 2 => NextTorsionColumn = PhiColumn

\* Two fragments were placed in full and a third is about to be drawn.
C20_Witness == pc = "draw" /\ i0 = 6 /\ i = 9

--------------------------------------------------------------------------
(* Claims about the clash validator                                       *)

\* C3: clash_found_vectorized and clash_found end the same way on the same
\* pair of chains: both return the same boolean, or both raise.
C3_SameOutcome ==
    (out_vectorized.outcome # "none" /\ out_found.outcome # "none") =>
        out_vectorized = out_found

\* An atom of a settled residue and an atom of a new residue, with the sum of
\* the radii of their labels in 0.01 Angstrom (the position of an atom in its
\* residue is its label).
ComparedAtomPairs ==
    {<<s, n, a, b>> \in SettledRange(last_chain) \X NewRange(current_chain, last_chain)
                        \X (1..4) \X (1..4) :
        a <= Len(last_chain[s + 1]) /\ b <= Len(current_chain[n + 1])}

PairDist2(t) == Dist2(last_chain[t[1] + 1][t[3]], current_chain[t[2] + 1][t[4]])

RadiusSum(t) == VDW[t[3]] + VDW[t[4]]

\* The coordinates and the radii are doubles.  For two atoms whose decimal
\* distance is the decimal sum of the radii of their labels, how the distance
\* the arrays hold (the double of that decimal) lies to the sum of the two
\* radii held (the doubles of 1.55, 1.7, 1.7, 1.52): -1 below it, 0 equal to
\* it, 1 above it.  The double of 3.07 is 3.0699999999999998, below the sum
\* of the doubles of 1.55 and 1.52; the double of 3.22 lies above the sum of
\* the doubles of 1.7 and 1.52.  The pairs of Residues at a decimal sum are
\* apart along one axis from a zero coordinate, so the distance held is the
\* double of the decimal.
DistanceAtDecimalSum ==
    << <<0, 0, 0, -1>>,
       <<0, 0, 0, 1>>,
       <<0, 0, 0, 1>>,
       <<-1, 1, 1, 0>> >>

\* The distance of the pair t is strictly below the sum of the radii of its
\* labels.
BelowRadiusSum(t) ==
    \/ PairDist2(t) < RadiusSum(t) * RadiusSum(t)
    \/ /\ PairDist2(t) = RadiusSum(t) * RadiusSum(t)
       /\ DistanceAtDecimalSum[t[3]][t[4]] < 0

\* The distance of the pair t is exactly the sum of the radii of its labels.
AtRadiusSum(t) ==
    /\ PairDist2(t) = RadiusSum(t) * RadiusSum(t)
    /\ DistanceAtDecimalSum[t[3]][t[4]] = 0

\* C4: each method returns True exactly when some compared pair of atoms is
\* strictly closer than the sum of the radii of its labels; a pair at exactly
\* that sum does not count.
C4_StrictInequality ==
    \A out \in {out_vectorized, out_found} :
        out.outcome # "none" =>
            (out = Return(TRUE) <=> \E t \in ComparedAtomPairs : BelowRadiusSum(t))

\* Both methods were called on chains whose closest compared pair is at
\* exactly the sum of its radii, and both returned False.
C4_Witness ==
    /\ out_vectorized = Return(FALSE) /\ out_found = Return(FALSE)
    /\ \E t \in ComparedAtomPairs : AtRadiusSum(t)

\* The residue pairs of the two windows of clash_found_vectorized; none when
\* a window is empty (np.concatenate raises before any distance is taken).
PairsVectorized ==
    IF SettledSlice(last_chain) = {} \/ NewSlice(current_chain, last_chain) = {}
    THEN {}
    ELSE SettledSlice(last_chain) \X NewSlice(current_chain, last_chain)

\* The residue pairs the two loops of clash_found range over.
PairsFound == SettledRange(last_chain) \X NewRange(current_chain, last_chain)

\* C10: with last_chain a prefix of current_chain, every residue pair either
\* method compares has its settled residue at an index <= len(last_chain)-3
\* and its new residue at an index >= len(last_chain)+1, so never the same
\* residue or two neighbours, and the two methods range over the same pairs.
C10_Windows ==
    /\ \A t \in PairsVectorized \cup PairsFound :
          /\ 0 <= t[1] /\ t[1] <= Len(last_chain) - 3
          /\ t[2] >= Len(last_chain) + 1 /\ t[2] <= Len(current_chain) - 1
          /\ t[2] - t[1] >= 2
    /\ PairsVectorized = PairsFound

\* Both methods were called with two settled and two new residues.
C10_Witness ==
    /\ out_vectorized.outcome = "return" /\ out_found.outcome = "return"
    /\ Cardinality(PairsFound) >= 2

\* C11: on atom groups of 4-atom residues whose last residue (of the settled
\* group, of the new group, or of both) has 3 atoms, each method returns a
\* boolean and does not raise, and the boolean says whether some atom of the
\* settled group and some atom of the new group are closer than the sum of
\* the radii of their own labels.
C11_TerminalTruncation ==
    \A out \in {out_vectorized, out_found} :
        out.outcome # "none" =>
            /\ out.outcome = "return"
            /\ out.value <=>
                 \E t \in ComparedAtomPairs : PairDist2(t) < RadiusSum(t) * RadiusSum(t)

--------------------------------------------------------------------------
(* Claims about the torsion functions                                      *)

\* C12: calc_torsion_angles returns exactly N - 3 angles for an array of
\* N >= 4 rows and 3 columns, and for fewer rows or another number of
\* columns returns no angle and fails with InvalidGeometryInput.
C12_TorsionCount ==
    torsion_out.outcome # "none" =>
        IF Len(data) >= 4 /\ ncols = 3
        THEN torsion_out = TorsionReturn(Len(data) - 3)
        ELSE torsion_out = TorsionRaise("InvalidGeometryInput")

\* The array passes both checks of validate_array_for_torsion.
ValidForTorsion == Len(data) > 0 /\ data[1] = "N" /\ Len(data) % 3 = 0

\* C13: validate_array_for_torsion returns a string and never raises, the
\* array without atoms included; the string is empty exactly when the first
\* label is N and the number of atoms is a multiple of 3, and when the first
\* label is not N it is the diagnostic about the first atom.
C13_ValidateTotal ==
    validate_out.outcome # "none" =>
        /\ validate_out.outcome = "return"
        /\ validate_out.value = "" <=> ValidForTorsion
        /\ (Len(data) > 0 /\ data[1] # "N") =>
              validate_out.value = "The first atom is not N, it should be!"

--------------------------------------------------------------------------
(* Claims about read_data_into_dict                                        *)

\* The maximal runs of a file: the pairs (a, b) of line numbers such that
\* the lines a..b have one label, line a - 1 (if any) has another and line
\* b + 1 (if any) has another.
MaximalRuns(file) ==
    {r \in (1..Len(file)) \X (1..Len(file)) :
        /\ r[1] <= r[2]
        /\ \A k \in r[1]..r[2] : file[k][2] = file[r[1]][2]
        /\ r[1] > 1 => file[r[1] - 1][2] # file[r[1]][2]
        /\ r[2] < Len(file) => file[r[2] + 1][2] # file[r[1]][2]}

\* The residue letters of the lines a..b, concatenated.
RunLetters(file, a, b) == [k \in 1..(b - a + 1) |-> file[a + k - 1][1]]

RECURSIVE RunData(_, _, _)
\* The records of the lines a..b, concatenated in line order.
RunData(file, a, b) ==
    IF a > b THEN <<>> ELSE SubSeq(file[a], 3, Len(file[a])) \o RunData(file, a + 1, b)

\* C14: the dict returned has no "NEW" key; for every maximal run of
\* same-label lines of every file it maps, under the label of the run, the
\* letters of the run to the records of the run in line order, also when
\* another run of the same label has the same letters; and every entry of
\* the dict is such a run, so no entry spans a label change or two files.
C14_RunsMerged ==
    read_pc = "done" =>
        /\ "NEW" \notin DOMAIN result_dict
        /\ \A f \in 1..Len(files) : \A r \in MaximalRuns(files[f]) :
              LET ss  == files[f][r[1]][2]
                  key == RunLetters(files[f], r[1], r[2])
              IN  /\ key \in DOMAIN result_dict[ss]
                  /\ result_dict[ss][key] = RunData(files[f], r[1], r[2])
        /\ \A ss \in DOMAIN result_dict : \A key \in DOMAIN result_dict[ss] :
              \E f \in 1..Len(files) : \E r \in MaximalRuns(files[f]) :
                  /\ files[f][r[1]][2] = ss
                  /\ RunLetters(files[f], r[1], r[2]) = key
                  /\ RunData(files[f], r[1], r[2]) = result_dict[ss][key]

--------------------------------------------------------------------------
(* Claims about JoinedResults and Worker                                   *)

\* C15: when run() has returned, results has len(input_data) entries, for
\* every input datum exactly one, the parsed result of its task; the task of
\* every input datum was taken by exactly one worker and called exactly
\* once, and no entry of results comes from None.
C15_OneResultPerInput ==
    run_pc = "returned" =>
        /\ Len(results) = Len(input_data)
        /\ \A k \in 1..Len(input_data) :
              /\ Cardinality({j \in 1..Len(results) :
                     results[j] = rp(TaskResult(input_data[k]))}) = 1
              /\ Len(taken_by[k]) = 1
              /\ ran[k] = 1
        /\ \A j \in 1..Len(results) :
              \E k \in 1..Len(input_data) : results[j] = rp(TaskResult(input_data[k]))

\* run() has returned the results of two tasks that two workers ran, the
\* second datum's result first.
C15_Witness ==
    /\ run_pc = "returned"
    /\ Len(input_data) = 2
    /\ taken_by[1] # taken_by[2]
    /\ results[1] = rp(TaskResult(input_data[2]))

\* C16: run() eventually returns with every worker exited and the task
\* queue empty, whether the tasks return or raise.
C16_RunTerminates ==
    <>(/\ run_pc = "returned"
       /\ \A w \in 1..ncores : worker_pc[w] = "exited"
       /\ tasks = <<>>)

--------------------------------------------------------------------------
(* Claims about DSSPTask                                                   *)

\* The words of the command as it was given, each a string of its own.
CommandTokens == ExtendWithSplit(command.items)

\* C21: every task run() has created with DSSPTask runs the tokens of the
\* command as given, then one '-i', then its input path, however many tasks
\* were created before it and whether the command is a string or a list; and
\* JoinedResults.cmd is still the command as it was given.
C21_OneInputFlag ==
    /\ cmd = command
    /\ \A k \in DOMAIN executed :
          executed[k] # <<>> =>
              executed[k] = CommandTokens \o << <<"-i">> >> \o <<pdb_paths[k]>>

==========================================================================
